---- MODULE Spec2Model ----
(***************************************************************************)
(* A model of the VL53L1X driver (adafruit_vl53l1x.py): the constructor,   *)
(* the one-time sensor initialisation, the public operations and the two   *)
(* register primitives, against an opaque device on an I2C bus whose       *)
(* transactions may fail.                                                  *)
(***************************************************************************)
EXTENDS Integers, Sequences, FiniteSets, TLC

\* ------------------------------------------------------------------
\* Register addresses
\* ------------------------------------------------------------------
VL53L1X_VHV_CONFIG__TIMEOUT_MACROP_LOOP_BOUND == 8
GPIO_HV_MUX__CTRL == 48
GPIO__TIO_HV_STATUS == 49
SYSTEM__INTERRUPT_CLEAR == 134
SYSTEM__MODE_START == 135
VL53L1X_RESULT__FINAL_CROSSTALK_CORRECTED_RANGE_MM_SD0 == 150
VL53L1X_IDENTIFICATION__MODEL_ID == 271
\* the two literal addresses of _sensor_init
INIT_SEQ_ADDRESS == 45
TRAILING_ADDRESS == 11

Byte == 0..255

\* the number of poll evaluations the history counter `polls` tells apart
\* (the counter saturates; the loop itself has no limit)
MaxPolls == 2

\* ------------------------------------------------------------------
\* Pure helpers
\* ------------------------------------------------------------------
Min(a, b) == IF a < b THEN a ELSE b

RECURSIVE BitAnd(_, _)
\* Python's & on non-negative integers
BitAnd(a, b) ==
    IF a = 0 \/ b = 0 THEN 0
    ELSE (a % 2) * (b % 2) + 2 * BitAnd(a \div 2, b \div 2)

\* Python's >> on non-negative integers
ShiftRight(a, n) == a \div (2 ^ n)

\* struct.pack(">H", address)
Pack_H(address) == << (address \div 256) % 256, address % 256 >>

\* struct.unpack(">H", data)[0]
Unpack_H(data) == data[1] * 256 + data[2]

RECURSIVE GCD(_, _)
GCD(a, b) == IF b = 0 THEN a ELSE GCD(b, a % b)

\* Python's true division of a non-negative integer by a positive one,
\* as the exact quotient in lowest terms
TrueDiv(n, d) ==
    LET g == GCD(n, d) IN [num |-> n \div g, den |-> d \div g]

\* a faulty variant: the block cut one byte short, ending at register 0x86
InitSeqShort ==
    << 0, 0, 0, 1, 2, 0, 2, 8, 0, 8,
       16, 1, 1, 0, 0, 0, 0, 255, 0, 15,
       0, 0, 0, 0, 0, 32, 11, 0, 0, 2,
       10, 33, 0, 0, 5, 0, 0, 0, 0, 200,
       0, 0, 56, 255, 1, 0, 8, 0, 0, 1,
       204, 15, 1, 241, 13, 1, 104, 0, 128, 8,
       184, 0, 0, 0, 0, 15, 137, 0, 0, 0,
       0, 0, 0, 0, 1, 15, 13, 14, 14, 0,
       0, 2, 199, 255, 155, 0, 0, 0, 1, 0 >>

\* the fixed initialisation block, registers 0x2d .. 0x87
InitSeq ==
    << 0, 0, 0, 1, 2, 0, 2, 8, 0, 8,
       16, 1, 1, 0, 0, 0, 0, 255, 0, 15,
       0, 0, 0, 0, 0, 32, 11, 0, 0, 2,
       10, 33, 0, 0, 5, 0, 0, 0, 0, 200,
       0, 0, 56, 255, 1, 0, 8, 0, 0, 1,
       204, 15, 1, 241, 13, 1, 104, 0, 128, 8,
       184, 0, 0, 0, 0, 15, 137, 0, 0, 0,
       0, 0, 0, 0, 1, 15, 13, 14, 14, 0,
       0, 2, 199, 255, 155, 0, 0, 0, 1, 0,
       0 >>

\* a faulty variant: the payload length defaulting to 0 instead of len(data)
WriteReqNoPayload(address, data) ==
    [prim |-> "W", address |-> address, data |-> data, length |-> 0]

\* ------------------------------------------------------------------
\* Register transaction primitives: what they put on the bus
\* ------------------------------------------------------------------
\* _write_registerN(address, data): length is None, so length = len(data)
WriteReq(address, data) ==
    [prim |-> "W", address |-> address, data |-> data, length |-> Len(data)]

\* _read_registerN(address, length)
ReadReq(address, length) ==
    [prim |-> "R", address |-> address, data |-> << >>, length |-> length]

NoReq == [prim |-> "-", address |-> 0, data |-> << >>, length |-> 0]

\* the bytes of the i2c.write of a primitive: the packed address, followed
\* for a register write by data[:length]
Frame(r) ==
    IF r.prim = "W"
    THEN Pack_H(r.address) \o SubSeq(r.data, 1, Min(r.length, Len(r.data)))
    ELSE Pack_H(r.address)

\* a faulty variant: the polarity read before the status
OperandOrderSwapped == << GPIO_HV_MUX__CTRL, GPIO__TIO_HV_STATUS >>

\* ------------------------------------------------------------------
\* The operations' register accesses
\* ------------------------------------------------------------------
\* data_ready evaluates its comparison's left operand (the status read)
\* before its right operand (the _interrupt_polarity read)
OperandOrder == << GPIO__TIO_HV_STATUS, GPIO_HV_MUX__CTRL >>

\* the register access made at each program point
Request(l) ==
    CASE l = "model_info" -> ReadReq(VL53L1X_IDENTIFICATION__MODEL_ID, 3)
      [] l = "init_seq"   -> WriteReq(INIT_SEQ_ADDRESS, InitSeq)
      [] l = "start"      -> WriteReq(SYSTEM__MODE_START, << 64 >>)
      [] l = "dr_first"   -> ReadReq(OperandOrder[1], 1)
      [] l = "dr_second"  -> ReadReq(OperandOrder[2], 1)
      [] l = "clear"      -> WriteReq(SYSTEM__INTERRUPT_CLEAR, << 1 >>)
      [] l = "stop"       -> WriteReq(SYSTEM__MODE_START, << 0 >>)
      [] l = "vhv"        ->
            WriteReq(VL53L1X_VHV_CONFIG__TIMEOUT_MACROP_LOOP_BOUND, << 9 >>)
      [] l = "trailing"   -> WriteReq(TRAILING_ADDRESS, << 0 >>)
      [] l = "distance"   ->
            ReadReq(VL53L1X_RESULT__FINAL_CROSSTALK_CORRECTED_RANGE_MM_SD0, 2)

\* a faulty variant: _sensor_init without its stop_ranging
AfterWriteNoStop(l) ==
    CASE l = "init_seq" -> "start"
      [] l = "start"    -> "dr_first"
      [] l = "clear"    -> "vhv"
      [] l = "stop"     -> "vhv"
      [] l = "vhv"      -> "trailing"
      [] l = "trailing" -> "return"

\* the statement of _sensor_init that follows each of its writes
AfterWrite(l) ==
    CASE l = "init_seq" -> "start"
      [] l = "start"    -> "dr_first"
      [] l = "clear"    -> "stop"
      [] l = "stop"     -> "vhv"
      [] l = "vhv"      -> "trailing"
      [] l = "trailing" -> "return"

PublicOps ==
    { "start_ranging", "stop_ranging", "clear_interrupt",
      "data_ready", "distance", "model_info" }

\* the first register access of each public operation
EntryLabel(o) ==
    CASE o = "start_ranging"   -> "start"
      [] o = "stop_ranging"    -> "stop"
      [] o = "clear_interrupt" -> "clear"
      [] o = "data_ready"      -> "dr_first"
      [] o = "distance"        -> "distance"
      [] o = "model_info"      -> "model_info"

\* a faulty variant: an identity check of the model id alone
IdentityOkModelIdOnly(info) == ~(info[1] # 234)

\* the identity check of __init__
IdentityOk(info) == ~(info[1] # 234 \/ info[2] # 204 \/ info[3] # 16)

\* _interrupt_polarity, from the byte read at GPIO_HV_MUX__CTRL
InterruptPolarity(mux) ==
    LET int_pol  == BitAnd(mux, 16)
        int_pol2 == BitAnd(ShiftRight(int_pol, 4), 1)
    IN  IF int_pol2 # 0 THEN 0 ELSE 1

\* a faulty variant: status & (0x01 == polarity), the comparison taken first
DataReadyComparisonFirst(status, mux) ==
    BitAnd(status, IF 1 = InterruptPolarity(mux) THEN 1 ELSE 0) # 0

\* data_ready, from the two bytes read: (status & 0x01) == polarity
DataReady(status, mux) == BitAnd(status, 1) = InterruptPolarity(mux)

\* a faulty variant: a single check in place of the loop
PollOnce(ready) == FALSE

\* the condition of the while loop of _sensor_init
PollAgain(ready) == ~ready

\* a faulty variant: floor division
DistanceFloor(data) == [num |-> Unpack_H(data) \div 10, den |-> 1]

\* distance, from the two bytes read
Distance(data) == TrueDiv(Unpack_H(data), 10)

\* ------------------------------------------------------------------
\* The device: opaque registers the driver reads
\* ------------------------------------------------------------------
ExpectedId == << 234, 204, 16 >>
IdSamples ==
    { ExpectedId, << 235, 204, 16 >>, << 234, 205, 16 >>, << 234, 204, 17 >> }
MuxSamples == { 1, 17 }
StatusSamples == { 2, 3 }
RangeSamples == { << 0, 100 >>, << 4, 210 >> }

DeviceByte(dev, a) ==
    CASE a = GPIO_HV_MUX__CTRL   -> dev.mux
      [] a = GPIO__TIO_HV_STATUS -> dev.status
      [] a = VL53L1X_RESULT__FINAL_CROSSTALK_CORRECTED_RANGE_MM_SD0 -> dev.range[1]
      [] a = VL53L1X_RESULT__FINAL_CROSSTALK_CORRECTED_RANGE_MM_SD0 + 1 -> dev.range[2]
      [] a = VL53L1X_IDENTIFICATION__MODEL_ID     -> dev.id[1]
      [] a = VL53L1X_IDENTIFICATION__MODEL_ID + 1 -> dev.id[2]
      [] a = VL53L1X_IDENTIFICATION__MODEL_ID + 2 -> dev.id[3]
      [] OTHER -> 0

\* i2c.readinto(data): length bytes from the addressed register on
ReadDevice(dev, address, length) ==
    [i \in 1..length |-> DeviceByte(dev, address + i - 1)]

\* ------------------------------------------------------------------
\* State
\* ------------------------------------------------------------------
VARIABLES
    driver,   \* "none" | "constructing" | "ready" | "failed"
    op,       \* the operation running, or the last one run
    active,   \* whether op is running
    pc,       \* the register access op is at
    io,       \* the position inside the register primitive
    req,      \* the primitive's arguments
    exc,      \* the exception raised in op: "none" | "BusError" | "RuntimeError"
    locked,   \* whether the bus session is held
    buf,      \* the buffer the last read primitive returned
    stByte,   \* data_ready: the status byte read, -1 before
    muxByte,  \* data_ready: the polarity byte read, -1 before
    result,   \* the value the last operation returned
    device,   \* the device's registers
    writes,   \* history: the frames of op's register writes
    busLog,   \* history: op's bus transactions (since the start of the
              \* current data_ready evaluation)
    polls,    \* history: data_ready evaluations of _sensor_init, saturating
    lastEval  \* history: what the last data_ready evaluation returned

vars ==
    << driver, op, active, pc, io, req, exc, locked, buf, stByte, muxByte,
       result, device, writes, busLog, polls, lastEval >>

NoResult == [kind |-> "none", flag |-> FALSE, num |-> 0, den |-> 1, info |-> << >>]

Devices(ids, muxes, statuses, ranges) ==
    { [id |-> i, mux |-> m, status |-> s, range |-> r] :
        i \in ids, m \in muxes, s \in statuses, r \in ranges }

\* before construction
Fresh ==
    /\ driver = "none"
    /\ op = "none"
    /\ active = FALSE
    /\ pc = "none"
    /\ io = "idle"
    /\ req = NoReq
    /\ exc = "none"
    /\ locked = FALSE
    /\ buf = << >>
    /\ stByte = -1
    /\ muxByte = -1
    /\ result = NoResult
    /\ writes = << >>
    /\ busLog = << >>
    /\ polls = 0
    /\ lastEval = "none"

Init ==
    /\ Fresh
    /\ device \in Devices(IdSamples, MuxSamples, StatusSamples, RangeSamples)

\* ------------------------------------------------------------------
\* Actions
\* ------------------------------------------------------------------
\* VL53L1X(i2c): __init__ up to its first register access
Construct ==
    /\ driver = "none"
    /\ driver' = "constructing"
    /\ op' = "init"
    /\ active' = TRUE
    /\ pc' = "model_info"
    /\ UNCHANGED << io, req, exc, locked, buf, stByte, muxByte, result,
                    device, writes, busLog, polls, lastEval >>

\* a call of a public operation on the constructed driver
Invoke(o) ==
    /\ driver = "ready"
    /\ ~active
    /\ op' = o
    /\ active' = TRUE
    /\ pc' = EntryLabel(o)
    /\ exc' = "none"
    /\ result' = NoResult
    /\ writes' = << >>
    /\ busLog' = << >>
    /\ req' = NoReq
    /\ buf' = << >>
    /\ stByte' = -1
    /\ muxByte' = -1
    /\ UNCHANGED << driver, io, locked, device, polls, lastEval >>

\* `with self.i2c_device as i2c`: the session is acquired
Enter ==
    /\ active
    /\ io = "idle"
    /\ pc # "sleep"
    /\ ~locked
    /\ locked' = TRUE
    /\ io' = "addr"
    /\ req' = Request(pc)
    /\ busLog' = IF pc = "dr_first" THEN << >> ELSE busLog
    /\ stByte' = IF pc = "dr_first" THEN -1 ELSE stByte
    /\ muxByte' = IF pc = "dr_first" THEN -1 ELSE muxByte
    /\ UNCHANGED << driver, op, active, pc, exc, buf, result, device, writes,
                    polls, lastEval >>

\* one bus transaction, as logged; a successful read of data_ready also
\* logs the polarity and status registers the device held when it was made
BusEntry(r, tx, bytes, ok) ==
    [prim |-> r.prim, tx |-> tx, bytes |-> bytes, ok |-> ok,
     at |-> IF tx = "readinto" /\ ok /\ pc \in {"dr_first", "dr_second"}
            THEN << device.mux, device.status >>
            ELSE << >>]

\* i2c.write(...) of either primitive succeeds
AddrOk ==
    /\ io = "addr"
    /\ busLog' = Append(busLog, BusEntry(req, "write", Frame(req), TRUE))
    /\ writes' = IF req.prim = "W" THEN Append(writes, Frame(req)) ELSE writes
    /\ io' = IF req.prim = "W" THEN "exit" ELSE "data"
    /\ UNCHANGED << driver, op, active, pc, req, exc, locked, buf, stByte,
                    muxByte, result, device, polls, lastEval >>

\* a faulty variant: a failed i2c.write whose error is swallowed
AddrFailSwallowed ==
    /\ io = "addr"
    /\ busLog' = Append(busLog, BusEntry(req, "write", Frame(req), FALSE))
    /\ writes' = IF req.prim = "W" THEN Append(writes, Frame(req)) ELSE writes
    /\ io' = IF req.prim = "W" THEN "exit" ELSE "data"
    /\ UNCHANGED << driver, op, active, pc, req, exc, locked, buf, stByte,
                    muxByte, result, device, polls, lastEval >>

\* i2c.write(...) of either primitive raises
AddrFail ==
    /\ io = "addr"
    /\ busLog' = Append(busLog, BusEntry(req, "write", Frame(req), FALSE))
    /\ writes' = IF req.prim = "W" THEN Append(writes, Frame(req)) ELSE writes
    /\ exc' = "BusError"
    /\ io' = "exit"
    /\ UNCHANGED << driver, op, active, pc, req, locked, buf, stByte, muxByte,
                    result, device, polls, lastEval >>

\* i2c.readinto(data) succeeds
DataOk ==
    /\ io = "data"
    /\ buf' = ReadDevice(device, req.address, req.length)
    /\ busLog' = Append(busLog, BusEntry(req, "readinto", buf', TRUE))
    /\ io' = "exit"
    /\ UNCHANGED << driver, op, active, pc, req, exc, locked, stByte, muxByte,
                    result, device, writes, polls, lastEval >>

\* i2c.readinto(data) raises
DataFail ==
    /\ io = "data"
    /\ busLog' = Append(busLog, BusEntry(req, "readinto", << >>, FALSE))
    /\ exc' = "BusError"
    /\ io' = "exit"
    /\ UNCHANGED << driver, op, active, pc, req, locked, buf, stByte, muxByte,
                    result, device, writes, polls, lastEval >>

\* a faulty variant: a session released on the normal path only
ExitNoFinally ==
    /\ io = "exit"
    /\ locked' = (exc # "none")
    /\ io' = "ret"
    /\ UNCHANGED << driver, op, active, pc, req, exc, buf, stByte, muxByte,
                    result, device, writes, busLog, polls, lastEval >>

\* the with block is left, normally or by the exception: the session is
\* released
Exit ==
    /\ io = "exit"
    /\ locked' = FALSE
    /\ io' = "ret"
    /\ UNCHANGED << driver, op, active, pc, req, exc, buf, stByte, muxByte,
                    result, device, writes, busLog, polls, lastEval >>

\* the exception of a primitive propagates out of the operation
Raise ==
    /\ io = "ret"
    /\ exc # "none"
    /\ io' = "idle"
    /\ active' = FALSE
    /\ driver' = IF op = "init" THEN "failed" ELSE driver
    /\ UNCHANGED << op, pc, req, exc, locked, buf, stByte, muxByte, result,
                    device, writes, busLog, polls, lastEval >>

\* model_info returns: the identity check of __init__, or the property's
\* value to its caller
RetModelInfo ==
    /\ io = "ret"
    /\ exc = "none"
    /\ pc = "model_info"
    /\ io' = "idle"
    /\ IF op = "init"
       THEN IF IdentityOk(buf)
            THEN /\ pc' = "init_seq"
                 /\ UNCHANGED << driver, active, exc, result >>
            ELSE /\ exc' = "RuntimeError"
                 /\ driver' = "failed"
                 /\ active' = FALSE
                 /\ UNCHANGED << pc, result >>
       ELSE /\ result' = [NoResult EXCEPT !.kind = "info", !.info = buf]
            /\ active' = FALSE
            /\ UNCHANGED << driver, pc, exc >>
    /\ UNCHANGED << op, req, locked, buf, stByte, muxByte, device, writes,
                    busLog, polls, lastEval >>

\* a register write returns: the next statement of _sensor_init, or the
\* end of start_ranging, stop_ranging or clear_interrupt
RetWrite ==
    /\ io = "ret"
    /\ exc = "none"
    /\ req.prim = "W"
    /\ io' = "idle"
    /\ IF op = "init" /\ AfterWrite(pc) # "return"
       THEN /\ pc' = AfterWrite(pc)
            /\ UNCHANGED << driver, active >>
       ELSE /\ active' = FALSE
            /\ driver' = IF op = "init" THEN "ready" ELSE driver
            /\ pc' = pc
    /\ UNCHANGED << op, req, exc, locked, buf, stByte, muxByte, result,
                    device, writes, busLog, polls, lastEval >>

\* the byte a read of data_ready returned, kept by the register it is of
StatusAfter(a, b, old) == IF a = GPIO__TIO_HV_STATUS THEN b[1] ELSE old
MuxAfter(a, b, old) == IF a = GPIO_HV_MUX__CTRL THEN b[1] ELSE old

\* the first read of data_ready returns
RetDrFirst ==
    /\ io = "ret"
    /\ exc = "none"
    /\ pc = "dr_first"
    /\ io' = "idle"
    /\ stByte' = StatusAfter(req.address, buf, stByte)
    /\ muxByte' = MuxAfter(req.address, buf, muxByte)
    /\ pc' = "dr_second"
    /\ UNCHANGED << driver, op, active, req, exc, locked, buf, result, device,
                    writes, busLog, polls, lastEval >>

\* the second read of data_ready returns and the property is evaluated: the
\* while loop of _sensor_init goes on or ends, or the value goes to the caller
RetDrSecond ==
    /\ io = "ret"
    /\ exc = "none"
    /\ pc = "dr_second"
    /\ io' = "idle"
    /\ stByte' = StatusAfter(req.address, buf, stByte)
    /\ muxByte' = MuxAfter(req.address, buf, muxByte)
    /\ LET ready == DataReady(stByte', muxByte') IN
         /\ lastEval' = IF ready THEN "true" ELSE "false"
         /\ IF op = "init"
            THEN /\ pc' = IF PollAgain(ready) THEN "sleep" ELSE "clear"
                 /\ polls' = Min(polls + 1, MaxPolls)
                 /\ UNCHANGED << active, result >>
            ELSE /\ result' = [NoResult EXCEPT !.kind = "bool", !.flag = ready]
                 /\ active' = FALSE
                 /\ UNCHANGED << pc, polls >>
    /\ UNCHANGED << driver, op, req, exc, locked, buf, device, writes, busLog >>

\* time.sleep(0.01) in the while loop of _sensor_init
Sleep ==
    /\ active
    /\ pc = "sleep"
    /\ io = "idle"
    /\ pc' = "dr_first"
    /\ UNCHANGED << driver, op, active, io, req, exc, locked, buf, stByte,
                    muxByte, result, device, writes, busLog, polls, lastEval >>

\* the read of distance returns and the value goes to the caller
RetDistance ==
    /\ io = "ret"
    /\ exc = "none"
    /\ pc = "distance"
    /\ io' = "idle"
    /\ LET d == Distance(buf) IN
         result' = [NoResult EXCEPT !.kind = "distance", !.num = d.num, !.den = d.den]
    /\ active' = FALSE
    /\ UNCHANGED << driver, op, pc, req, exc, locked, buf, stByte, muxByte,
                    device, writes, busLog, polls, lastEval >>

\* the device changes its status, polarity or range registers on its own
DeviceStep ==
    /\ device' \in Devices({device.id}, MuxSamples, StatusSamples, RangeSamples)
    /\ device' # device
    /\ UNCHANGED << driver, op, active, pc, io, req, exc, locked, buf, stByte,
                    muxByte, result, writes, busLog, polls, lastEval >>

\* ------------------------------------------------------------------
\* Specifications
\* ------------------------------------------------------------------
\* the steps of the driver's code once an operation has been called
DriverStep ==
    \/ Enter
    \/ AddrOk
    \/ AddrFail
    \/ DataOk
    \/ DataFail
    \/ Exit
    \/ Raise
    \/ RetModelInfo
    \/ RetWrite
    \/ RetDrFirst
    \/ RetDrSecond
    \/ Sleep
    \/ RetDistance

Next ==
    \/ Construct
    \/ \E o \in PublicOps : Invoke(o)
    \/ DriverStep
    \/ DeviceStep

\* the driver and its device
Spec == Init /\ [][Next]_vars

\* the constructor alone, run to its end: the code of an operation that
\* has been called keeps executing
CtorStep ==
    \/ Enter
    \/ AddrOk
    \/ AddrFail
    \/ DataOk
    \/ DataFail
    \/ Exit
    \/ Raise
    \/ RetModelInfo
    \/ RetWrite
    \/ RetDrFirst
    \/ RetDrSecond
    \/ Sleep

CtorNext ==
    \/ Construct
    \/ CtorStep
    \/ DeviceStep

CtorSpec == Init /\ [][CtorNext]_vars /\ WF_vars(CtorStep)

\* a constructed driver at rest, after a stop_ranging that succeeded
AtRest ==
    /\ driver = "ready"
    /\ op = "stop_ranging"
    /\ active = FALSE
    /\ pc = "stop"
    /\ io = "idle"
    /\ req = WriteReq(SYSTEM__MODE_START, << 0 >>)
    /\ exc = "none"
    /\ locked = FALSE
    /\ buf = << >>
    /\ stByte = -1
    /\ muxByte = -1
    /\ result = NoResult
    /\ writes = << << 0, 135, 0 >> >>
    /\ busLog = << [prim |-> "W", tx |-> "write", bytes |-> << 0, 135, 0 >>,
                    ok |-> TRUE, at |-> << >>] >>
    /\ polls = 1
    /\ lastEval = "true"

\* data_ready on every pair of polarity and status bytes, the device at rest
\* and the bus sound
DataReadyInit ==
    /\ AtRest
    /\ device \in Devices({ExpectedId}, Byte, Byte, {<< 0, 100 >>})

DataReadyNext ==
    \/ Invoke("data_ready")
    \/ Enter
    \/ AddrOk
    \/ DataOk
    \/ Exit
    \/ RetDrFirst
    \/ RetDrSecond

DataReadySpec == DataReadyInit /\ [][DataReadyNext]_vars

\* distance on every pair of range bytes, the device at rest and the bus sound
DistanceInit ==
    /\ AtRest
    /\ device \in Devices({ExpectedId}, {1}, {2}, Byte \X Byte)

DistanceNext ==
    \/ Invoke("distance")
    \/ Enter
    \/ AddrOk
    \/ DataOk
    \/ Exit
    \/ RetDistance

DistanceSpec == DistanceInit /\ [][DistanceNext]_vars

\* ------------------------------------------------------------------
\* Claims
\* ------------------------------------------------------------------
IsPrefix(s, u) == Len(s) <= Len(u) /\ s = SubSeq(u, 1, Len(s))

\* the frames of the register writes of a successful construction
ExpectedCtorWrites ==
    << << 0, 45 >> \o InitSeq,
       << 0, 135, 64 >>,
       << 0, 134, 1 >>,
       << 0, 135, 0 >>,
       << 0, 8, 9 >>,
       << 0, 11, 0 >> >>

\* the register writes made when the constructor is at program point l
\* (the write at l included once it has been issued)
WritesBefore(l) ==
    CASE l = "model_info" -> 0
      [] l = "init_seq"   -> 0
      [] l = "start"      -> 1
      [] l \in {"dr_first", "dr_second", "sleep"} -> 2
      [] l = "clear"      -> 2
      [] l = "stop"       -> 3
      [] l = "vhv"        -> 4
      [] l = "trailing"   -> 5

Polling == pc \in {"dr_first", "dr_second", "sleep"}

\* C1: with the identity (0xEA, 0xCC, 0x10) read and no bus failure, the
\* constructor succeeds, and its register writes are, in this order and
\* with none other and none repeated: the init block at 0x002D, 0x40 to
\* 0x0087, then (after polls that only read, the last of which returned
\* true) 0x01 to 0x0086, 0x00 to 0x0087, 0x09 to 0x0008, 0x00 to 0x000B.
C1_CtorWriteSequence ==
    (op = "init" /\ exc = "none" /\ device.id = ExpectedId) =>
        /\ driver # "failed"
        /\ IsPrefix(writes, ExpectedCtorWrites)
        /\ Len(writes) \in { WritesBefore(pc), WritesBefore(pc) + 1 }
        /\ (Polling => /\ Len(writes) = 2
                       /\ (polls > 0 => \A i \in 1..Len(busLog) : busLog[i].prim = "R"))
        /\ (Len(writes) >= 3 => lastEval = "true")
        /\ (~active => driver = "ready" /\ writes = ExpectedCtorWrites)

C1_Witness ==
    /\ driver = "ready"
    /\ op = "init"
    /\ ~active
    /\ exc = "none"
    /\ polls = MaxPolls
    /\ writes = ExpectedCtorWrites

\* C2: when the identity read differs from (0xEA, 0xCC, 0x10) in any byte,
\* construction fails with the identity-mismatch error, no driver is
\* returned and no register write at all is issued.
C2_IdentityMismatchFails ==
    device.id # ExpectedId =>
        /\ driver # "ready"
        /\ writes = << >>
        /\ \A i \in 1..Len(busLog) : busLog[i].prim = "R"
        /\ (op = "init" /\ ~active /\ exc # "BusError" =>
                driver = "failed" /\ exc = "RuntimeError")
        /\ (exc = "RuntimeError" => driver = "failed" /\ ~active)

C2_Witness ==
    /\ device.id = << 234, 204, 17 >>
    /\ driver = "failed"
    /\ exc = "RuntimeError"
    /\ ~active
    /\ writes = << >>

\* the one frame each of the three control operations writes
ControlFrame(o) ==
    CASE o = "start_ranging"   -> << 0, 135, 64 >>
      [] o = "stop_ranging"    -> << 0, 135, 0 >>
      [] o = "clear_interrupt" -> << 0, 134, 1 >>

\* C3: start_ranging, stop_ranging and clear_interrupt each issue exactly
\* one bus transaction, the write of the one byte 0x40 to 0x0087, 0x00 to
\* 0x0087 and 0x01 to 0x0086 respectively, whatever the state they are
\* called in: no read and no other write.
C3_ControlOpsWriteOnce ==
    \A o \in {"start_ranging", "stop_ranging", "clear_interrupt"} :
        op = o =>
            /\ IsPrefix(writes, << ControlFrame(o) >>)
            /\ Len(busLog) = Len(writes)
            /\ \A i \in 1..Len(busLog) :
                 /\ busLog[i].prim = "W"
                 /\ busLog[i].tx = "write"
                 /\ busLog[i].bytes = ControlFrame(o)
            /\ (~active => Len(writes) = 1)

C3_Witness ==
    /\ op = "stop_ranging"
    /\ ~active
    /\ exc = "none"
    /\ lastEval = "true"
    /\ writes = << << 0, 135, 0 >> >>
    /\ Len(busLog) = 1

\* C6: both register primitives release the bus session before they return
\* or let the error through, whether the transaction succeeded or failed at
\* the address write or at the read; the session is never held when no
\* operation is running.
C6_SessionReleased ==
    /\ (locked => active /\ io \in {"addr", "data", "exit"})
    /\ (io \in {"idle", "ret"} => ~locked)
    /\ (~active => ~locked)

C6_Witness ==
    /\ io = "ret"
    /\ exc = "BusError"
    /\ ~locked
    /\ req.prim = "R"
    /\ Len(busLog) = 2
    /\ busLog[2].tx = "readinto"
    /\ ~busLog[2].ok

\* C7: a failed bus transaction raises at once: it is the last transaction
\* of its operation (no retry, nothing after it), the error is not dropped,
\* and in the constructor none of the later steps run and no driver is
\* returned.
C7_BusErrorSurfaces ==
    /\ \A i \in 1..Len(busLog) : (~busLog[i].ok) => i = Len(busLog)
    /\ (Len(busLog) > 0 /\ ~busLog[Len(busLog)].ok => exc = "BusError")
    /\ (exc = "BusError" =>
            /\ Len(busLog) > 0 /\ ~busLog[Len(busLog)].ok
            /\ io \in {"exit", "ret", "idle"}
            /\ (io = "idle" => ~active))
    /\ (exc = "BusError" /\ op = "init" =>
            /\ driver # "ready"
            /\ (~active => driver = "failed")
            /\ IsPrefix(writes, ExpectedCtorWrites)
            /\ Len(writes) = WritesBefore(pc) + (IF req.prim = "W" THEN 1 ELSE 0))

C7_Witness ==
    /\ driver = "failed"
    /\ exc = "BusError"
    /\ pc = "stop"
    /\ ~active
    /\ Len(writes) = 4

\* C9 as stated: the init write carries exactly 90 bytes, from 0x2D to
\* 0x87 inclusive.
C9_Original ==
    (op = "init" /\ Len(writes) >= 1) =>
        /\ SubSeq(writes[1], 1, 2) = << 0, 45 >>
        /\ Len(writes[1]) - 2 = 90
        /\ 45 + (Len(writes[1]) - 2) - 1 = 135

\* C9 (amended): the one-time initialisation write carries exactly 91 bytes
\* in a single write that starts at 0x002D, so that its first byte lands on
\* 0x2D and its last on 0x87; no other write of the constructor carries
\* more than one byte.
C9_InitBlock91 ==
    (op = "init" /\ Len(writes) >= 1) =>
        /\ SubSeq(writes[1], 1, 2) = << 0, 45 >>
        /\ Len(writes[1]) - 2 = 91
        /\ 45 + (Len(writes[1]) - 2) - 1 = 135
        /\ \A i \in 2..Len(writes) : Len(writes[i]) = 3

C9_Witness ==
    /\ op = "init"
    /\ driver = "ready"
    /\ Len(writes) = 6
    /\ Len(writes[1]) = 93
    /\ writes[1][93] = 0

\* a data_ready evaluation has just returned, to its caller or to the
\* while loop of _sensor_init
EvalDone ==
    /\ exc = "none"
    /\ \/ op = "data_ready" /\ ~active
       \/ op = "init" /\ active /\ io = "idle" /\ pc \in {"sleep", "clear"}

\* the two register reads of an evaluation, as four bus transactions
TwoReads(first, second) ==
    /\ Len(busLog) = 4
    /\ \A i \in 1..4 : busLog[i].prim = "R" /\ busLog[i].ok
    /\ busLog[1].tx = "write" /\ busLog[1].bytes = first
    /\ busLog[2].tx = "readinto" /\ Len(busLog[2].bytes) = 1
    /\ busLog[3].tx = "write" /\ busLog[3].bytes = second
    /\ busLog[4].tx = "readinto" /\ Len(busLog[4].bytes) = 1

\* the value of data_ready for a status byte and a polarity byte
ReadyFor(status, mux) ==
    (status % 2) = (IF (mux \div 16) % 2 = 1 THEN 0 ELSE 1)

\* C10 as stated: every evaluation of data_ready makes exactly two register
\* reads, 0x0030 (polarity) before 0x0031 (status), so that the polarity
\* used is the one the device held at the first read and the status the one
\* it held at the second.
C10_Original ==
    EvalDone =>
        /\ TwoReads(<< 0, 48 >>, << 0, 49 >>)
        /\ (lastEval = "true") = ReadyFor(busLog[4].at[2], busLog[2].at[1])

\* C10 (amended): every evaluation of data_ready makes exactly two register
\* reads, never reusing an earlier polarity, 0x0031 (status) before 0x0030
\* (polarity): the status used is the one the device held at the first
\* read and the polarity the one it held at the second, so a register
\* change between the two reads affects the polarity seen, not the status.
C10_StatusThenPolarity ==
    EvalDone =>
        /\ TwoReads(<< 0, 49 >>, << 0, 48 >>)
        /\ (lastEval = "true") = ReadyFor(busLog[2].at[2], busLog[4].at[1])

C10_Witness ==
    /\ EvalDone
    /\ Len(busLog) = 4
    /\ busLog[2].at # busLog[4].at
    /\ ReadyFor(busLog[2].at[2], busLog[4].at[1])
         # ReadyFor(busLog[4].at[2], busLog[2].at[1])

\* C4: data_ready returns true exactly when (status_byte & 0x01) equals the
\* polarity value, which is 0 when (mux_byte & 0x10) != 0 and 1 otherwise,
\* for every pair of bytes; no other bit of either byte matters.
C4_DataReadyValue ==
    (op = "data_ready" /\ ~active /\ exc = "none") =>
        /\ result.kind = "bool"
        /\ result.flag = ReadyFor(device.status, device.mux)

C4_Witness ==
    /\ op = "data_ready"
    /\ ~active
    /\ device.mux = 239
    /\ device.status = 255
    /\ result.kind = "bool"
    /\ result.flag

\* C5: distance depends only on the two bytes (b0, b1) read from 0x0096 and
\* satisfies 10 * distance = 256 * b0 + b1 exactly, tenths included.
C5_DistanceExact ==
    (op = "distance" /\ ~active /\ exc = "none") =>
        /\ result.kind = "distance"
        /\ result.den > 0
        /\ 10 * result.num = (256 * device.range[1] + device.range[2]) * result.den

C5_Witness ==
    /\ op = "distance"
    /\ ~active
    /\ device.range = << 4, 210 >>
    /\ result.kind = "distance"
    /\ result.num = 617
    /\ result.den = 5

\* C8: after the start write the constructor evaluates data_ready again and
\* again, with no attempt limit: an evaluation that returns false always
\* leads to the sleep and another evaluation, the clear write (and so the
\* end of construction) comes only after an evaluation that returned true;
\* once an evaluation has returned true the construction completes unless
\* an error is raised, as it does when the device's polarity and status
\* registers settle on values that show data ready.
C8_PollUnbounded ==
    /\ [](op = "init" /\ (Len(writes) >= 3 \/ driver = "ready")
            => lastEval = "true")
    /\ [][(op = "init" /\ pc = "dr_second" /\ io = "ret" /\ exc = "none"
            /\ io' = "idle")
            => /\ active'
               /\ pc' = (IF lastEval' = "true" THEN "clear" ELSE "sleep")]_vars
    /\ [][(pc = "sleep" /\ pc' # pc) => (active' /\ pc' = "dr_first")]_vars
    /\ ((op = "init" /\ active /\ pc = "clear" /\ lastEval = "true")
            ~> (driver = "ready" \/ exc # "none"))
    /\ \A m \in MuxSamples, s \in StatusSamples :
          ReadyFor(s, m) =>
            ((<>[](device.mux = m /\ device.status = s) /\ [](exc = "none"))
                => [](driver = "constructing" => <>(driver = "ready")))

C8_Witness ==
    /\ op = "init"
    /\ active
    /\ pc = "sleep"
    /\ polls = MaxPolls
    /\ lastEval = "false"
    /\ Len(writes) = 2

====
